---- MODULE Spec2Model ----
(***************************************************************************)
(* SMART Insulin Worksheet (src/app.py): the dose calculations of the      *)
(* Streamlit script and the script's rerun behaviour.                      *)
(*                                                                         *)
(* Python floats are IEEE-754 binary64.  A float is modelled exactly, as   *)
(* the record [m |-> mantissa, e |-> exponent] of value m * 2^e with m odd *)
(* (or zero), m a natural number of at most 53 bits kept as a little-      *)
(* endian sequence of base-2^15 limbs.  Every arithmetic operation rounds  *)
(* its exact result to 53 bits, ties to even, as the hardware does.        *)
(***************************************************************************)
EXTENDS Integers, Sequences, FiniteSets, TLC

\* ------------------------------------------------------------------------
\* Natural numbers of any size: little-endian limbs, no leading zero limb.
\* ------------------------------------------------------------------------
Pow2(n) == 2 ^ n

Max(i, j) == IF i >= j THEN i ELSE j
Min(i, j) == IF i <= j THEN i ELSE j

Base == Pow2(15)

\* drop the most significant zero limbs
RECURSIVE BTrim(_)
BTrim(a) ==
  IF a = <<>> THEN <<>>
  ELSE IF a[Len(a)] = 0 THEN BTrim(SubSeq(a, 1, Len(a) - 1))
  ELSE a

RECURSIVE BFromInt(_)
BFromInt(n) ==
  IF n = 0 THEN <<>> ELSE <<n % Base>> \o BFromInt(n \div Base)

RECURSIVE BToInt(_)
BToInt(a) ==
  IF a = <<>> THEN 0 ELSE a[1] + Base * BToInt(Tail(a))

BLimb(a, i) == IF i >= 1 /\ i <= Len(a) THEN a[i] ELSE 0

RECURSIVE SmallBitLen(_)
SmallBitLen(n) == IF n = 0 THEN 0 ELSE 1 + SmallBitLen(n \div 2)

\* bits in a limb
LimbBits == SmallBitLen(Base - 1)

BBitLen(a) ==
  IF a = <<>> THEN 0 ELSE LimbBits * (Len(a) - 1) + SmallBitLen(a[Len(a)])

\* bit i (0 = least significant) of a
BBit(a, i) == (BLimb(a, (i \div LimbBits) + 1) \div Pow2(i % LimbBits)) % 2

\* -1, 0, 1 as a < b, a = b, a > b; i runs from the top limb down
RECURSIVE BCmpFrom(_, _, _)
BCmpFrom(a, b, i) ==
  IF i = 0 THEN 0
  ELSE IF BLimb(a, i) < BLimb(b, i) THEN -1
  ELSE IF BLimb(a, i) > BLimb(b, i) THEN 1
  ELSE BCmpFrom(a, b, i - 1)

BCmp(a, b) ==
  IF Len(a) < Len(b) THEN -1
  ELSE IF Len(a) > Len(b) THEN 1
  ELSE BCmpFrom(a, b, Len(a))

RECURSIVE BAddFrom(_, _, _, _)
BAddFrom(a, b, i, carry) ==
  IF i > Len(a) /\ i > Len(b)
  THEN IF carry = 0 THEN <<>> ELSE <<carry>>
  ELSE LET t == BLimb(a, i) + BLimb(b, i) + carry
       IN  <<t % Base>> \o BAddFrom(a, b, i + 1, t \div Base)

BAdd(a, b) == BAddFrom(a, b, 1, 0)

\* a - b for a >= b
RECURSIVE BSubFrom(_, _, _, _)
BSubFrom(a, b, i, borrow) ==
  IF i > Len(a) THEN <<>>
  ELSE LET t == BLimb(a, i) - BLimb(b, i) - borrow
       IN  IF t < 0 THEN <<t + Base>> \o BSubFrom(a, b, i + 1, 1)
           ELSE <<t>> \o BSubFrom(a, b, i + 1, 0)

BSub(a, b) == BTrim(BSubFrom(a, b, 1, 0))

\* a * n + c for a small n, c (n <= Base)
RECURSIVE BMulSmallFrom(_, _, _, _)
BMulSmallFrom(a, n, i, carry) ==
  IF i > Len(a)
  THEN IF carry = 0 THEN <<>> ELSE <<carry>>
  ELSE LET t == a[i] * n + carry
       IN  <<t % Base>> \o BMulSmallFrom(a, n, i + 1, t \div Base)

BMulSmall(a, n) == IF n = 0 THEN <<>> ELSE BMulSmallFrom(a, n, 1, 0)

Zeros(k) == [i \in 1..k |-> 0]

RECURSIVE BMulFrom(_, _, _)
BMulFrom(a, b, j) ==
  IF j > Len(b) THEN <<>>
  ELSE BAdd(Zeros(j - 1) \o BMulSmall(a, b[j]), BMulFrom(a, b, j + 1))

BMul(a, b) == IF a = <<>> \/ b = <<>> THEN <<>> ELSE BTrim(BMulFrom(a, b, 1))

\* a * 2^s
BShl(a, s) ==
  IF a = <<>> THEN <<>>
  ELSE Zeros(s \div LimbBits) \o BMulSmall(a, Pow2(s % LimbBits))

\* floor(a / 2^s)
BShr(a, s) ==
  LET k == s \div LimbBits
      r == s % LimbBits
      n == Len(a) - k
  IN  IF n <= 0 THEN <<>>
      ELSE BTrim([i \in 1..n |->
                    (a[i + k] \div Pow2(r))
                    + (BLimb(a, i + k + 1) % Pow2(r)) * Pow2(LimbBits - r)])

\* a mod 2^s is not zero
BLowNonZero(a, s) ==
  \E i \in 1..Len(a) :
     \/ i <= s \div LimbBits /\ a[i] # 0
     \/ i = (s \div LimbBits) + 1 /\ a[i] % Pow2(s % LimbBits) # 0

\* the largest q <= guess with q * b <= r
RECURSIVE BDigit(_, _, _)
BDigit(b, r, guess) ==
  IF BCmp(BMulSmall(b, guess), r) > 0 THEN BDigit(b, r, guess - 1) ELSE guess

\* long division by b, whose top limb is at least Base / 2: the limbs i..1 of a
\* are brought down one at a time onto the remainder r < b; each quotient limb
\* is guessed from the top limbs of the remainder and of b, and then lowered
\* until it fits: <<quotient limbs, remainder>>
RECURSIVE BDivFrom(_, _, _, _)
BDivFrom(a, b, i, r) ==
  IF i = 0 THEN <<(<<>>), r>>
  ELSE LET n == Len(b)
           r2 == BTrim(<<a[i]>> \o r)
           guess == Min(Base - 1, (BLimb(r2, n + 1) * Base + BLimb(r2, n)) \div b[n])
           q == IF guess = 0 THEN 0 ELSE BDigit(b, r2, guess)
           low == BDivFrom(a, b, i - 1, BSub(r2, BMulSmall(b, q)))
       IN  <<low[1] \o <<q>>, low[2]>>

\* <<floor(a / b), a mod b>> for b > 0
BDivMod(a, b) ==
  LET s == LimbBits - SmallBitLen(b[Len(b)])
      an == BShl(a, s)
      bn == BShl(b, s)
      n == Len(an) - Len(bn) + 1
  IN  IF n <= 0 THEN <<(<<>>), a>>
      ELSE LET qr == BDivFrom(an, bn, n, SubSeq(an, n + 1, Len(an)))
           IN  <<BTrim(qr[1]), BShr(qr[2], s)>>

\* number of trailing zero bits of a > 0
RECURSIVE SmallTz(_)
SmallTz(n) == IF n % 2 = 1 THEN 0 ELSE 1 + SmallTz(n \div 2)

RECURSIVE ZeroLimbs(_, _)
ZeroLimbs(a, i) == IF a[i] # 0 THEN 0 ELSE 1 + ZeroLimbs(a, i + 1)

BTz(a) == LET z == ZeroLimbs(a, 1) IN LimbBits * z + SmallTz(a[z + 1])

\* ------------------------------------------------------------------------
\* binary64 floats, non-negative: value m * 2^e, m odd or zero.
\* ------------------------------------------------------------------------
Precision == 53

FZero == [m |-> <<>>, e |-> 0]

Canon(m, e) ==
  IF m = <<>> THEN FZero
  ELSE LET t == BTz(m) IN [m |-> BShr(m, t), e |-> e + t]

\* the float nearest to the exact value v, n * 2^e <= v < (n + 1) * 2^e, where
\* sticky says v > n * 2^e (then n has more than Precision + 1 bits); ties to even
FRound(n, e, sticky) ==
  LET len == BBitLen(n)
      sh == len - Precision
  IN  IF sh <= 0 THEN Canon(n, e)
      ELSE LET kept == BShr(n, sh)
               half == BBit(n, sh - 1) = 1
               rest == sticky \/ BLowNonZero(n, sh - 1)
               up == half /\ (rest \/ BBit(kept, 0) = 1)
           IN  Canon(IF up THEN BAdd(kept, <<1>>) ELSE kept, e + sh)

FFromInt(n) == Canon(BFromInt(n), 0)

FMul(a, b) == FRound(BMul(a.m, b.m), a.e + b.e, FALSE)

\* a / b for b # 0
FDiv(a, b) ==
  IF a.m = <<>> THEN FZero
  ELSE LET t == Max(0, Precision + 2 + BBitLen(b.m) - BBitLen(a.m))
           qr == BDivMod(BShl(a.m, t), b.m)
       IN  FRound(qr[1], a.e - b.e - t, qr[2] # <<>>)

FAdd(a, b) ==
  LET lo == Min(a.e, b.e)
  IN  FRound(BAdd(BShl(a.m, a.e - lo), BShl(b.m, b.e - lo)), lo, FALSE)

\* a - b for a >= b
FSub(a, b) ==
  LET lo == Min(a.e, b.e)
  IN  FRound(BSub(BShl(a.m, a.e - lo), BShl(b.m, b.e - lo)), lo, FALSE)

\* Python's round(a): the nearest integer, ties to the even one
PyRound(a) ==
  IF a.e >= 0 THEN BToInt(BShl(a.m, a.e))
  ELSE LET fl == BToInt(BShr(a.m, 0 - a.e))
       IN  IF a.e = -1
           THEN IF fl % 2 = 0 THEN fl ELSE fl + 1
           ELSE IF BBit(a.m, (0 - a.e) - 1) = 1 THEN fl + 1 ELSE fl

\* math.ceil(a)
PyCeil(a) ==
  IF a.e >= 0 THEN BToInt(BShl(a.m, a.e))
  ELSE BToInt(BShr(a.m, 0 - a.e)) + 1

\* exact comparison of two floats: a <= b
FLeq(a, b) ==
  LET lo == Min(a.e, b.e)
  IN  BCmp(BShl(a.m, a.e - lo), BShl(b.m, b.e - lo)) <= 0

FFromHalves(k) == Canon(BFromInt(k), -1)

FFromQuarters(q) == Canon(BFromInt(q), -2)

\* the float a decimal literal n/d denotes (0.3 is Lit(3, 10)): the nearest one
Lit(n, d) == FDiv(FFromInt(n), FFromInt(d))

\* ------------------------------------------------------------------------
\* The dose calculations of the script.
\* ------------------------------------------------------------------------
\* def round_unit(x, step=0.5): return step * round(float(x) / step)
round_unit_no_div(x) ==
  LET step == Lit(1, 2) IN FMul(step, FFromInt(PyRound(x)))

round_unit(x) ==
  LET step == Lit(1, 2) IN FMul(step, FFromInt(PyRound(FDiv(x, step))))

Usual == "Usual"
HypoConcern == "Hypoglycemia concern"
Categories == {Usual, HypoConcern}

Initial == "Initial prescription"
Repeat == "Repeat prescription (with previous TDD)"
Inadequate == "Inadequate control (with previous TDD)"
Hypoglycemia == "Hypoglycemia (with previous TDD)"
Visits == {Initial, Repeat, Inadequate, Hypoglycemia}

Basal == "Basal"
BasalPlus == "Basal plus (one prandial)"
PremixBID == "Premixed - twice a day"
PremixTID == "Premixed - three times a day"
BasalBolus == "Basal bolus"
Regimens == {Basal, BasalPlus, PremixBID, PremixTID, BasalBolus}

StepOptions == {10, 15, 20}
FactorOptions == {Lit(i, 10) : i \in 1..6}

Rapid == "Rapid analogue (1800/TDD)"
Regular == "Regular (1500/TDD)"
CorrTypes == {Rapid, Regular}

BolRegular == "Regular (1500/TDD)"
BolRapid == "Rapid Acting (1800/TDD)"
BolTypes == {BolRegular, BolRapid}

\* target = 130 if category == "Usual" else 140
Target(category) == IF category = Usual THEN 130 ELSE 140

\* prev_tdd or tdd_base: Python takes the right operand when the left is
\* None (here <<>>) or 0.0
PrevOr(prev_tdd, tdd_base) ==
  IF prev_tdd = <<>> THEN tdd_base
  ELSE IF prev_tdd[1] = FZero THEN tdd_base ELSE prev_tdd[1]

\* the tdd of the visit logic, before it is rounded
VisitTdd(visit, wt, factor, prev_tdd, step) ==
  LET tdd_base == FMul(wt, factor)
      pct == FDiv(FFromInt(step), FFromInt(100))
  IN  CASE visit = Initial -> tdd_base
        [] visit = Repeat -> PrevOr(prev_tdd, tdd_base)
        [] visit = Inadequate ->
             FMul(PrevOr(prev_tdd, tdd_base), FAdd(FFromInt(1), pct))
        [] OTHER ->
             FMul(PrevOr(prev_tdd, tdd_base), FSub(FFromInt(1), pct))

AdjNote(visit, step) ==
  CASE visit = Initial -> "Initial: TDD = weight x factor"
    [] visit = Repeat -> "Repeat: using previous TDD"
    [] visit = Inadequate ->
         "Escalation: +" \o ToString(step) \o "% applied to previous TDD"
    [] OTHER ->
         "De-escalation: -" \o ToString(step) \o "% applied to previous TDD"

\* The regimen-specific doses the page shows.  Each is round_unit of one
\* expression: a literal fraction num/den times the weight or the tdd, divided
\* by div where the code divides (tdd*2/3, (tdd*0.50)/3).
Dose(of, num, den, div) == [of |-> of, num |-> num, den |-> den, div |-> div]

RegimenFormulasWrong(regimen) ==
  CASE regimen = Basal ->
         [lo |-> Dose("wt", 1, 10, 1), hi |-> Dose("wt", 2, 10, 1)]
    [] regimen = BasalPlus ->
         [lo |-> Dose("wt", 1, 10, 1), hi |-> Dose("wt", 2, 10, 1),
          prandial |-> Dose("wt", 1, 10, 1)]
    [] regimen = PremixBID ->
         [breakfast |-> Dose("tdd", 2, 1, 3), supper |-> Dose("tdd", 1, 1, 3)]
    [] regimen = PremixTID ->
         [breakfast |-> Dose("tdd", 40, 100, 1), lunch |-> Dose("tdd", 40, 100, 1),
          dinner |-> Dose("tdd", 40, 100, 1)]
    [] OTHER ->
         [basal |-> Dose("tdd", 50, 100, 1), bolus_total |-> Dose("tdd", 50, 100, 1),
          per_meal |-> Dose("tdd", 50, 100, 3)]

RegimenFormulas(regimen) ==
  CASE regimen = Basal ->
         [lo |-> Dose("wt", 1, 10, 1), hi |-> Dose("wt", 2, 10, 1)]
    [] regimen = BasalPlus ->
         [lo |-> Dose("wt", 1, 10, 1), hi |-> Dose("wt", 2, 10, 1),
          prandial |-> Dose("wt", 1, 10, 1)]
    [] regimen = PremixBID ->
         [breakfast |-> Dose("tdd", 2, 1, 3), supper |-> Dose("tdd", 1, 1, 3)]
    [] regimen = PremixTID ->
         [breakfast |-> Dose("tdd", 40, 100, 1), lunch |-> Dose("tdd", 30, 100, 1),
          dinner |-> Dose("tdd", 30, 100, 1)]
    [] OTHER ->
         [basal |-> Dose("tdd", 50, 100, 1), bolus_total |-> Dose("tdd", 50, 100, 1),
          per_meal |-> Dose("tdd", 50, 100, 3)]

\* the unrounded amount of one dose
Amount(f, tdd, wt) ==
  IF f.div = 1
  THEN FMul(IF f.of = "wt" THEN wt ELSE tdd, Lit(f.num, f.den))
  ELSE FDiv(FMul(tdd, Lit(f.num, f.den)), FFromInt(f.div))

RegimenDoses(regimen, tdd, wt) ==
  [k \in DOMAIN RegimenFormulas(regimen) |->
     round_unit(Amount(RegimenFormulas(regimen)[k], tdd, wt))]

\* cf = (1800.0 / tdd) if "Rapid" in corr_type else (1500.0 / tdd), tdd # 0
CorrectionFactor(corr_type, tdd) ==
  IF corr_type = Rapid THEN FDiv(FFromInt(1800), tdd)
  ELSE FDiv(FFromInt(1500), tdd)

bins_40 == <<<<131, 170>>, <<171, 210>>, <<211, 250>>, <<251, 290>>, <<291, 330>>>>

RangeLabel(lo, hi) == ToString(lo) \o "-" \o ToString(hi)

\* max(1, int(math.ceil(delta / cf))) with delta = max(0, lo - target)
UnitsUsualNoFloor(lo, target, cf) ==
  Max(0, PyCeil(FDiv(FFromInt(Max(0, lo - target)), cf)))

UnitsUsual(lo, target, cf) ==
  Max(1, PyCeil(FDiv(FFromInt(Max(0, lo - target)), cf)))

ClosedRow(bin, target, cf) ==
  LET units_usual == UnitsUsual(bin[1], target, cf)
  IN  [range |-> RangeLabel(bin[1], bin[2]),
       usual |-> units_usual,
       hypo |-> Max(0, units_usual - 1)]

\* the >330 row with its safety bump
OpenRowNoBump(target, cf) ==
  LET units_usual == UnitsUsual(331, target, cf)
  IN  [range |-> ">330", usual |-> units_usual, hypo |-> Max(0, units_usual - 1)]

OpenRow(target, cf) ==
  LET units_usual == UnitsUsual(331, target, cf) + 5
  IN  [range |-> ">330", usual |-> units_usual, hypo |-> Max(0, units_usual - 1)]

CorrectionRows(target, cf) ==
  [i \in 1..Len(bins_40) |-> ClosedRow(bins_40[i], target, cf)]
    \o <<OpenRow(target, cf)>>

\* isf = 1500 / bol_tdd if "Regular" in bol_type else 1800 / bol_tdd
ISF(bol_type, bol_tdd) ==
  IF bol_type = BolRegular THEN FDiv(FFromInt(1500), bol_tdd)
  ELSE FDiv(FFromInt(1800), bol_tdd)

\* 0 if premeal_bs <= goal else math.ceil((premeal_bs - goal) / isf)
BolusUnits(premeal_bs, goal, isf) ==
  IF premeal_bs <= goal THEN 0
  ELSE PyCeil(FDiv(FFromInt(premeal_bs - goal), isf))

ref_buckets == <<<<131, 170>>, <<171, 210>>, <<211, 250>>, <<251, 290>>, <<291, 330>>>>

RefClosedRow(bin, isf) ==
  [range |-> RangeLabel(bin[1], bin[2]),
   usual |-> Max(1, PyCeil(FDiv(FFromInt(Max(0, bin[1] - 130)), isf))),
   hypo |-> Max(0, PyCeil(FDiv(FFromInt(Max(0, bin[1] - 140)), isf)))]

RefOpenRowBigHypoBump(isf) ==
  [range |-> ">330",
   usual |-> Max(1, PyCeil(FDiv(FFromInt(Max(0, 331 - 130)), isf))) + 5,
   hypo |-> Max(0, PyCeil(FDiv(FFromInt(Max(0, 331 - 140)), isf))) + 6]

RefOpenRow(isf) ==
  [range |-> ">330",
   usual |-> Max(1, PyCeil(FDiv(FFromInt(Max(0, 331 - 130)), isf))) + 5,
   hypo |-> Max(0, PyCeil(FDiv(FFromInt(Max(0, 331 - 140)), isf))) + 4]

ReferenceRows(isf) ==
  [i \in 1..Len(ref_buckets) |-> RefClosedRow(ref_buckets[i], isf)]
    \o <<RefOpenRow(isf)>>

\* ------------------------------------------------------------------------
\* State.  The script's globals after its latest run, Streamlit's widget
\* state, and the event a rerun is pending for.  A Python name the latest run
\* did not bind holds a placeholder of its type, and computed says which
\* results the run produced.  prev_tdd is <<>> for None and <<x>> for a float.
\* ------------------------------------------------------------------------
VARIABLES
  pc,           \* "idle": page rendered; "rerun": an event waits for the script;
                \* "input", "done", "again": a calculation applied on its own
  event,        \* what triggered the latest (or the pending) run
  widgets,      \* Streamlit's session state: widget key -> value
  wt, category, factor, visit, prev_tdd, regimen, submitted,
  target, step, tdd_raw, tdd, adj_note, doses, corr_type, cf, rows,
  bol_tdd, bol_type, premeal_bs, isf, units_usual, units_hypo, rows_ref,
  computed,     \* the results the latest run produced
  error         \* "none" or the exception that stopped the latest run

formVars == <<wt, category, factor, visit, prev_tdd, regimen>>
tddVars == <<step, tdd_raw, tdd, adj_note>>
tableVars == <<target, corr_type, cf, rows>>
bolusVars == <<premeal_bs, units_usual, units_hypo>>
refVars == <<bol_type, isf, rows_ref>>
vars == <<pc, event, widgets, formVars, submitted, tddVars, doses, tableVars,
          bol_tdd, bolusVars, refVars, computed, error>>

\* program constants: the widgets' defaults and limits
WtDefaultHalves == 140
WtMinHalves == 40
PrevDefault == 40
PrevMax == 300
StepDefault == 15
BolTddDefault == 50
BolTddMinHalves == 10
PremealDefault == 180
PremealMin == 60

\* bounds of the model
MaxWtSteps == 20        \* weights 20.0, 20.5, ... in the calculations on their own
MaxPrevQuarters == 20   \* previous TDD 0, 0.25, ... there
MaxTddHalves == 720     \* tdd 0.5, 1.0, ... for the tables and the splits
MaxBolHalves == 80      \* bolus TDD 5.0, 5.5, ... for the bolus correction
MaxPremeal == 440       \* pre-meal glucose 60, 61, ... for the bolus correction
UiPrevQuarters == 1     \* previous TDD 0, 0.25, ... the user types
UiWtSteps == 0          \* weights 70.0, 70.5, ... the user picks
UiBolSteps == 1         \* bolus TDD 50.0, 50.5, ... the user picks
UiPremealSteps == 0     \* pre-meal glucose 180, 181, ... the user picks

NoDoses == [unset |-> FZero]
NoRows == <<>>

FormKeys == {"wt", "category", "factor", "visit", "regimen"}
BolusKeys == {"bol_tdd", "bol_type", "premeal_bs"}
EscalationSlider == "Escalation step"
DeescalationSlider == "De-escalation step"

\* a widget call: the value the session holds for the widget, else its default
Widget(w, key, default) == IF key \in DOMAIN w THEN w[key] ELSE default

SliderOf(v) ==
  IF v = Inadequate THEN {EscalationSlider}
  ELSE IF v = Hypoglycemia THEN {DeescalationSlider}
  ELSE {}

\* ------------------------------------------------------------------------
\* One run of the script, top to bottom, on the widget state w; sub is the
\* value of st.form_submit_button: TRUE only in the run the click triggers.
\* An uncaught exception stops the run, and nothing after it is rendered.
\* At the end of a run Streamlit drops the state of every widget the run did
\* not render.
\* ------------------------------------------------------------------------
RunScript(w, sub) ==
  /\ wt' = Widget(w, "wt", FFromHalves(WtDefaultHalves))
  /\ category' = Widget(w, "category", Usual)
  /\ factor' = Widget(w, "factor", Lit(3, 10))
  /\ visit' = Widget(w, "visit", Initial)
  /\ prev_tdd' = IF visit' # Initial
                 THEN <<Widget(w, "prev_tdd", FFromInt(PrevDefault))>>
                 ELSE <<>>
  /\ regimen' = Widget(w, "regimen", Basal)
  /\ submitted' = sub
  /\ target' = IF sub THEN Target(category') ELSE 0
  /\ step' = IF sub /\ visit' = Inadequate
               THEN Widget(w, EscalationSlider, StepDefault)
             ELSE IF sub /\ visit' = Hypoglycemia
               THEN Widget(w, DeescalationSlider, StepDefault)
             ELSE StepDefault
  /\ tdd_raw' = IF sub THEN VisitTdd(visit', wt', factor', prev_tdd', step') ELSE FZero
  /\ adj_note' = IF sub THEN AdjNote(visit', step') ELSE ""
  /\ tdd' = IF sub THEN round_unit(tdd_raw') ELSE FZero
  /\ doses' = IF sub THEN RegimenDoses(regimen', tdd', wt') ELSE NoDoses
  /\ corr_type' = IF sub THEN Widget(w, "corr_type", Rapid) ELSE Rapid
  /\ error' = IF sub /\ tdd' = FZero THEN "ZeroDivisionError" ELSE "none"
  /\ cf' = IF sub /\ error' = "none" THEN CorrectionFactor(corr_type', tdd') ELSE FZero
  /\ rows' = IF sub /\ error' = "none" THEN CorrectionRows(target', cf') ELSE NoRows
  /\ bol_tdd' = IF error' = "none"
                THEN Widget(w, "bol_tdd", FFromInt(BolTddDefault))
                ELSE FFromInt(BolTddDefault)
  /\ bol_type' = IF error' = "none" THEN Widget(w, "bol_type", BolRegular) ELSE BolRegular
  /\ premeal_bs' = IF error' = "none"
                   THEN Widget(w, "premeal_bs", PremealDefault)
                   ELSE PremealDefault
  /\ isf' = IF error' = "none" THEN ISF(bol_type', bol_tdd') ELSE FZero
  /\ units_usual' = IF error' = "none" THEN BolusUnits(premeal_bs', 130, isf') ELSE 0
  /\ units_hypo' = IF error' = "none" THEN BolusUnits(premeal_bs', 140, isf') ELSE 0
  /\ rows_ref' = IF error' = "none" THEN ReferenceRows(isf') ELSE NoRows
  /\ computed' = (IF sub THEN {"tdd", "doses"} ELSE {})
                   \cup (IF sub /\ error' = "none" THEN {"rows"} ELSE {})
                   \cup (IF error' = "none" THEN {"bolus", "rows_ref"} ELSE {})
  /\ widgets' =
       [k \in FormKeys
                \cup (IF visit' # Initial THEN {"prev_tdd"} ELSE {})
                \cup (IF sub THEN SliderOf(visit') \cup {"corr_type"} ELSE {})
                \cup (IF error' = "none" THEN BolusKeys ELSE {}) |->
          CASE k = "wt" -> wt'
            [] k = "category" -> category'
            [] k = "factor" -> factor'
            [] k = "visit" -> visit'
            [] k = "prev_tdd" -> prev_tdd'[1]
            [] k = "regimen" -> regimen'
            [] k = "corr_type" -> corr_type'
            [] k = "bol_tdd" -> bol_tdd'
            [] k = "bol_type" -> bol_type'
            [] k = "premeal_bs" -> premeal_bs'
            [] OTHER -> step']

\* the page as first loaded: one run on an empty session, nothing submitted
Init ==
  /\ pc = "idle"
  /\ event = "load"
  /\ wt = FFromHalves(WtDefaultHalves)
  /\ category = Usual
  /\ factor = Lit(3, 10)
  /\ visit = Initial
  /\ prev_tdd = <<>>
  /\ regimen = Basal
  /\ submitted = FALSE
  /\ target = 0
  /\ step = StepDefault
  /\ tdd_raw = FZero
  /\ tdd = FZero
  /\ adj_note = ""
  /\ doses = NoDoses
  /\ corr_type = Rapid
  /\ cf = FZero
  /\ rows = NoRows
  /\ error = "none"
  /\ bol_tdd = FFromInt(BolTddDefault)
  /\ bol_type = BolRegular
  /\ premeal_bs = PremealDefault
  /\ isf = ISF(bol_type, bol_tdd)
  /\ units_usual = BolusUnits(premeal_bs, 130, isf)
  /\ units_hypo = BolusUnits(premeal_bs, 140, isf)
  /\ rows_ref = ReferenceRows(isf)
  /\ computed = {"bolus", "rows_ref"}
  /\ widgets = [wt |-> wt, category |-> category, factor |-> factor,
                visit |-> visit, regimen |-> regimen, bol_tdd |-> bol_tdd,
                bol_type |-> bol_type, premeal_bs |-> premeal_bs]

results == <<formVars, submitted, tddVars, doses, tableVars, bol_tdd, bolusVars,
             refVars, computed, error>>

\* the values the user's edits are drawn from
UiChoices(key) ==
  CASE key = "wt" -> {FFromHalves(WtDefaultHalves + i) : i \in 0..UiWtSteps}
    [] key = "category" -> Categories
    [] key = "factor" -> {factor}
    [] key = "visit" -> Visits
    [] key = "prev_tdd" ->
         {FFromQuarters(q) : q \in 0..UiPrevQuarters} \cup {FFromInt(PrevDefault)}
    [] key = "regimen" -> Regimens
    [] key = "bol_tdd" -> {FFromHalves(2 * BolTddDefault + i) : i \in 0..UiBolSteps}
    [] key = "bol_type" -> BolTypes
    [] OTHER -> {PremealDefault + i : i \in 0..UiPremealSteps}

\* The user edits one field of the entry form (or none) and clicks "Save &
\* Continue".  Edits inside the form trigger no rerun; the click does.  The
\* previous-TDD field exists only if the latest run rendered it.
UserSubmit ==
  /\ pc = "idle"
  /\ \E key \in (FormKeys \cup {"prev_tdd"}) \cap DOMAIN widgets :
       \E v \in UiChoices(key) : widgets' = [widgets EXCEPT ![key] = v]
  /\ pc' = "rerun"
  /\ event' = "submit"
  /\ UNCHANGED results

\* The user moves the step slider the latest run rendered.
UserMoveSlider ==
  /\ pc = "idle"
  /\ \E key \in {EscalationSlider, DeescalationSlider} \cap DOMAIN widgets :
       \E s \in StepOptions \ {widgets[key]} :
          widgets' = [widgets EXCEPT ![key] = s]
  /\ pc' = "rerun"
  /\ event' = "slider"
  /\ UNCHANGED results

\* The user picks the other correction insulin type.
UserPickCorrType ==
  /\ pc = "idle"
  /\ "corr_type" \in DOMAIN widgets
  /\ \E t \in CorrTypes \ {widgets["corr_type"]} :
       widgets' = [widgets EXCEPT !["corr_type"] = t]
  /\ pc' = "rerun"
  /\ event' = "radio"
  /\ UNCHANGED results

\* The user changes an input of the bolus calculator.
UserSetBolus ==
  /\ pc = "idle"
  /\ \E key \in BolusKeys \cap DOMAIN widgets :
       \E v \in UiChoices(key) \ {widgets[key]} :
          widgets' = [widgets EXCEPT ![key] = v]
  /\ pc' = "rerun"
  /\ event' = "bolus"
  /\ UNCHANGED results

\* Streamlit reruns the script for the pending event.
ScriptRun ==
  /\ pc = "rerun"
  /\ RunScript(widgets, event = "submit")
  /\ pc' = "idle"
  /\ event' = event

Next ==
  \/ UserSubmit
  \/ UserMoveSlider
  \/ UserPickCorrType
  \/ UserSetBolus
  \/ ScriptRun

Spec == Init /\ [][Next]_vars

\* a step of ScriptRun and a step of UserSubmit, by what they do to pc and event
RerunStep == pc = "rerun" /\ pc' = "idle"

SubmitStep == pc = "idle" /\ pc' = "rerun" /\ event' = "submit"

\* Streamlit runs the script for every event, and the user keeps clicking
\* "Save & Continue"
FairSpec == Spec /\ WF_pc(RerunStep) /\ SF_<<pc, event>>(SubmitStep)

\* ------------------------------------------------------------------------
\* The calculations applied on their own, on inputs drawn from their ranges.
\* ------------------------------------------------------------------------
Unset ==
  /\ event = "call"
  /\ widgets = <<>>
  /\ category = Usual
  /\ regimen = Basal
  /\ submitted = TRUE
  /\ target = 0
  /\ step = StepDefault
  /\ tdd_raw = FZero
  /\ adj_note = ""
  /\ doses = NoDoses
  /\ corr_type = Rapid
  /\ cf = FZero
  /\ rows = NoRows
  /\ bol_type = BolRegular
  /\ isf = FZero
  /\ units_usual = 0
  /\ units_hypo = 0
  /\ rows_ref = NoRows
  /\ computed = {}
  /\ error = "none"

\* --- the visit logic and the rounding of the tdd (lines 102-121) ---------
WtGrid == {FFromHalves(WtMinHalves + i) : i \in 0..MaxWtSteps}

PrevGrid ==
  {FFromQuarters(q) : q \in 0..MaxPrevQuarters} \cup {FFromInt(PrevDefault), FFromInt(PrevMax)}

TddInit ==
  /\ pc = "input"
  /\ Unset
  /\ wt \in WtGrid
  /\ factor \in FactorOptions
  /\ visit \in Visits
  /\ prev_tdd \in (IF visit = Initial THEN {<<>>} ELSE {<<p>> : p \in PrevGrid})
  /\ tdd = FZero
  /\ bol_tdd = FFromInt(BolTddDefault)
  /\ premeal_bs = PremealDefault

ComputeTdd ==
  /\ pc = "input"
  /\ step' \in (IF visit \in {Inadequate, Hypoglycemia} THEN StepOptions ELSE {StepDefault})
  /\ tdd_raw' = VisitTdd(visit, wt, factor, prev_tdd, step')
  /\ adj_note' = AdjNote(visit, step')
  /\ tdd' = round_unit(tdd_raw')
  /\ computed' = {"tdd"}
  /\ pc' = "done"
  /\ UNCHANGED <<event, widgets, formVars, submitted, doses, tableVars, bol_tdd,
                 bolusVars, refVars, error>>

RoundAgain ==
  /\ pc = "done"
  /\ tdd' = round_unit(tdd)
  /\ pc' = "again"
  /\ UNCHANGED <<event, widgets, formVars, submitted, step, tdd_raw, adj_note, doses,
                 tableVars, bol_tdd, bolusVars, refVars, computed, error>>

TddNext ==
  \/ ComputeTdd
  \/ RoundAgain

TddSpec == TddInit /\ [][TddNext]_vars

\* --- the regimen split and the two tables for a rounded tdd --------------
DoseInit ==
  /\ pc = "input"
  /\ Unset
  /\ wt = FFromHalves(WtDefaultHalves)
  /\ factor = Lit(3, 10)
  /\ visit = Initial
  /\ prev_tdd = <<>>
  /\ tdd \in {FFromHalves(k) : k \in 1..MaxTddHalves}
  /\ bol_tdd = tdd
  /\ premeal_bs = PremealDefault

SplitRegimen ==
  /\ pc = "input"
  /\ regimen' \in Regimens
  /\ doses' = RegimenDoses(regimen', tdd, wt)
  /\ computed' = {"doses"}
  /\ pc' = "done"
  /\ UNCHANGED <<event, widgets, wt, category, factor, visit, prev_tdd, submitted,
                 tddVars, tableVars, bol_tdd, bolusVars, refVars, error>>

BuildCorrectionTable ==
  /\ pc = "input"
  /\ category' \in Categories
  /\ corr_type' \in CorrTypes
  /\ target' = Target(category')
  /\ cf' = CorrectionFactor(corr_type', tdd)
  /\ rows' = CorrectionRows(target', cf')
  /\ computed' = {"rows"}
  /\ pc' = "done"
  /\ UNCHANGED <<event, widgets, wt, factor, visit, prev_tdd, regimen, submitted,
                 tddVars, doses, bol_tdd, bolusVars, refVars, error>>

BuildReferenceTable ==
  /\ pc = "input"
  /\ bol_type' \in BolTypes
  /\ isf' = ISF(bol_type', bol_tdd)
  /\ rows_ref' = ReferenceRows(isf')
  /\ computed' = {"rows_ref"}
  /\ pc' = "done"
  /\ UNCHANGED <<event, widgets, formVars, submitted, tddVars, doses, tableVars,
                 bol_tdd, bolusVars, error>>

DoseNext ==
  \/ SplitRegimen
  \/ BuildCorrectionTable
  \/ BuildReferenceTable

DoseSpec == DoseInit /\ [][DoseNext]_vars

\* --- the bolus correction for a bolus TDD and a pre-meal glucose ----------
BolusInit ==
  /\ pc = "input"
  /\ Unset
  /\ wt = FFromHalves(WtDefaultHalves)
  /\ factor = Lit(3, 10)
  /\ visit = Initial
  /\ prev_tdd = <<>>
  /\ tdd = FZero
  /\ bol_tdd \in {FFromHalves(k) : k \in BolTddMinHalves..MaxBolHalves}
  /\ premeal_bs \in PremealMin..MaxPremeal

BolusCorrection ==
  /\ pc = "input"
  /\ bol_type' \in BolTypes
  /\ isf' = ISF(bol_type', bol_tdd)
  /\ units_usual' = BolusUnits(premeal_bs, 130, isf')
  /\ units_hypo' = BolusUnits(premeal_bs, 140, isf')
  /\ computed' = {"bolus"}
  /\ pc' = "done"
  /\ UNCHANGED <<event, widgets, formVars, submitted, tddVars, doses, tableVars,
                 bol_tdd, premeal_bs, rows_ref, error>>

BolusNext == BolusCorrection

BolusSpec == BolusInit /\ [][BolusNext]_vars

\* ------------------------------------------------------------------------
\* Properties.  Doses are compared in exact integer arithmetic: a multiple of
\* 0.5 is counted in halves.
\* ------------------------------------------------------------------------
Abs(n) == IF n < 0 THEN 0 - n ELSE n

\* ceil(a / b) for a >= 0, b > 0
CeilDiv(a, b) == (a + b - 1) \div b

IsHalfMultiple(x) == x.m = <<>> \/ x.e >= -1

\* x / 0.5 for a multiple of 0.5
HalvesOf(x) == IF x.m = <<>> THEN 0 ELSE BToInt(BShl(x.m, x.e + 1))

\* 1800 or 1500, by the insulin type
RuleOf(insulin) == IF insulin \in {Rapid, BolRapid} THEN 1800 ELSE 1500

\* ceil(delta / (rule / tdd)) for tdd = halves / 2, in exact arithmetic
ExactUnits(delta, halves, rule) == CeilDiv(delta * halves, 2 * rule)

HypoBelowUsual(table) == \A i \in DOMAIN table : table[i].hypo <= table[i].usual

\* C1: in every row of the entry-driven correction table and of the bolus
\* calculator's reference table, units_hypo <= units_usual.
C1_HypoNeverAboveUsual == HypoBelowUsual(rows) /\ HypoBelowUsual(rows_ref)

\* a reference table with a row whose two columns are equal
C1_Witness ==
  /\ "rows_ref" \in computed
  /\ \E i \in DOMAIN rows_ref : rows_ref[i].hypo = rows_ref[i].usual

\* C2: the rounded tdd that reaches cf = 1800/tdd or 1500/tdd is strictly
\* positive, so no run of the script fails on a division by zero.
C2_NoDivisionByZero == submitted => (tdd # FZero /\ error = "none")

SplitSum ==
  CASE regimen = PremixBID -> HalvesOf(doses.breakfast) + HalvesOf(doses.supper)
    [] regimen = PremixTID ->
         HalvesOf(doses.breakfast) + HalvesOf(doses.lunch) + HalvesOf(doses.dinner)
    [] OTHER -> HalvesOf(doses.basal) + HalvesOf(doses.bolus_total)

\* C3: for premix twice a day, premix three times a day and basal bolus the
\* displayed components sum to the tdd within 0.5 U.
C3_SplitSumsToTdd ==
  ("doses" \in computed /\ regimen \in {PremixBID, PremixTID, BasalBolus})
    => Abs(SplitSum - HalvesOf(tdd)) <= 1

\* a three-times-a-day split that loses half a unit to the rounding
C3_Witness ==
  /\ "doses" \in computed
  /\ regimen = PremixTID
  /\ SplitSum = HalvesOf(tdd) - 1

\* C4: the tdd is the multiple of 0.5 nearest to the unrounded value, an exact
\* tie going to the even multiple, and rounding it again changes nothing.
C4_RoundUnitNearestHalf ==
  pc \in {"done", "again"} =>
    /\ IsHalfMultiple(tdd)
    /\ HalvesOf(tdd) > 0 => FLeq(FFromQuarters(2 * HalvesOf(tdd) - 1), tdd_raw)
    /\ FLeq(tdd_raw, FFromQuarters(2 * HalvesOf(tdd) + 1))
    /\ (\/ tdd_raw = FFromQuarters(2 * HalvesOf(tdd) + 1)
        \/ (HalvesOf(tdd) > 0 /\ tdd_raw = FFromQuarters(2 * HalvesOf(tdd) - 1)))
         => HalvesOf(tdd) % 2 = 0
    /\ pc = "again" => tdd = round_unit(tdd_raw)

\* an exact tie, rounded to the even multiple and rounded again
C4_Witness ==
  /\ pc = "again"
  /\ tdd # FZero
  /\ tdd_raw = FFromQuarters(2 * HalvesOf(tdd) + 1)

\* C5: when the note says the previous TDD was used, the tdd is the rounded
\* previous TDD, and when it says +step% or -step% was applied to the previous
\* TDD, the tdd is the rounded previous TDD times (1 +/- step/100).
C5_NoteDescribesRule ==
  pc = "done" =>
    /\ adj_note = AdjNote(Repeat, step) => tdd = round_unit(prev_tdd[1])
    /\ adj_note = AdjNote(Inadequate, step) =>
         tdd = round_unit(FMul(prev_tdd[1],
                               FAdd(FFromInt(1), FDiv(FFromInt(step), FFromInt(100)))))
    /\ adj_note = AdjNote(Hypoglycemia, step) =>
         tdd = round_unit(FMul(prev_tdd[1],
                               FSub(FFromInt(1), FDiv(FFromInt(step), FFromInt(100)))))

ExactUsual(lo) ==
  Max(1, ExactUnits(Max(0, lo - target), HalvesOf(tdd), RuleOf(corr_type)))

\* C6: the entry-driven table has, for each closed bin, units_usual =
\* max(1, ceil(max(0, lo - target) / cf)) and units_hypo = max(0, units_usual - 1),
\* and for >330 the same with lo = 331 and 5 added to units_usual; the target
\* is 130 for Usual and 140 otherwise; tdd 50, Rapid, target 130 gives 11 and 10.
C6_EntryTableFormulas ==
  "rows" \in computed =>
    /\ target = (IF category = Usual THEN 130 ELSE 140)
    /\ Len(rows) = 6
    /\ \A i \in 1..5 :
         /\ rows[i].usual = ExactUsual(bins_40[i][1])
         /\ rows[i].hypo = Max(0, rows[i].usual - 1)
    /\ rows[6].usual = ExactUsual(331) + 5
    /\ rows[6].hypo = rows[6].usual - 1
    /\ (tdd = FFromInt(50) /\ corr_type = Rapid /\ target = 130)
         => (rows[6].usual = 11 /\ rows[6].hypo = 10)

\* the example of the claim
C6_Witness ==
  /\ "rows" \in computed
  /\ tdd = FFromInt(50)
  /\ corr_type = Rapid
  /\ target = 130
  /\ rows[6].usual = 11

\* C7: a run whose bolus TDD and bolus insulin type are those of the run
\* before it shows the reference rows of the run before it, whatever changed
\* in the entry form.
C7_ReferenceTableOfBolusOnly ==
  [][(/\ pc = "rerun"
      /\ Widget(widgets, "bol_tdd", bol_tdd) = bol_tdd
      /\ Widget(widgets, "bol_type", bol_type) = bol_type)
       => rows_ref' = rows_ref]_vars

ExactBolus(goal) ==
  IF premeal_bs <= goal THEN 0
  ELSE ExactUnits(premeal_bs - goal, HalvesOf(bol_tdd), RuleOf(bol_type))

\* C8: the bolus correction is 0 at or below the goal and else
\* ceil((g - goal) / isf), goal 130 for units_usual and 140 for units_hypo,
\* isf = 1500/tdd for Regular and 1800/tdd for Rapid; units_hypo <= units_usual;
\* tdd 50, Regular, g = 180 gives 2 and 2.
C8_BolusFormulas ==
  "bolus" \in computed =>
    /\ units_usual = ExactBolus(130)
    /\ units_hypo = ExactBolus(140)
    /\ units_hypo <= units_usual
    /\ (bol_tdd = FFromInt(50) /\ bol_type = BolRegular /\ premeal_bs = 180)
         => (units_usual = 2 /\ units_hypo = 2)

SliderMovedTo(s) ==
  /\ pc = "rerun"
  /\ event = "slider"
  /\ \E key \in {EscalationSlider, DeescalationSlider} \cap DOMAIN widgets :
       widgets[key] = s

DosesUse(s) ==
  /\ submitted
  /\ visit \in {Inadequate, Hypoglycemia}
  /\ "tdd" \in computed
  /\ step = s

\* C9: the step the user selects on the slider is the step the displayed
\* doses are computed with: moving the slider to s leads to a dose section
\* whose tdd uses s.
C9_SelectedStepIsUsed ==
  \A s \in StepOptions \ {StepDefault} : SliderMovedTo(s) ~> DosesUse(s)

\* every dose section the page displays uses the default step
StepIsDefaultWhenDisplayed == submitted => step = StepDefault

NonDecreasing(table) ==
  /\ \A i \in 1..(Len(table) - 1) :
       /\ table[i].usual <= table[i + 1].usual
       /\ table[i].hypo <= table[i + 1].hypo
  /\ table # NoRows =>
       /\ table[6].usual > table[5].usual
       /\ table[6].hypo > table[5].hypo

\* C10: in both tables each dose column is non-decreasing down the rows, and
\* the >330 row is strictly greater than the 291-330 row.
C10_ColumnsNonDecreasing == NonDecreasing(rows) /\ NonDecreasing(rows_ref)

\* an entry-driven table whose >330 row exceeds the row above by the bump alone
C10_Witness ==
  /\ "rows" \in computed
  /\ rows[6].usual = rows[5].usual + 5

====
